---------------------------- MODULE Spec2Model ----------------------------
(***************************************************************************)
(* Model of jules-scratch/verification/verify_gallery_card_changes.py:     *)
(* one linear Playwright scenario (launch, log in, wait for the dashboard  *)
(* and a gallery card, screenshot, close) run inside a                     *)
(* `with sync_playwright()` scope.  The script is started up to MaxRuns    *)
(* times in succession against a filesystem that keeps the artifact.       *)
(*                                                                         *)
(* The target application and the browser are the environment: for every   *)
(* run the record env says how they behave (which call raises, when the     *)
(* redirect happens, when a card appears).  A call that raises ends run()  *)
(* (there is no try/except in the script), the with-scope is left and the  *)
(* exception ends the process with a non-zero status.                      *)
(***************************************************************************)
EXTENDS Integers, Sequences, FiniteSets, TLC

\* ------------------------------------------------------------------ bounds
MaxRuns == 2
TickMs == 5000
MaxDelayTicks == 3

\* --------------------------------------------------------- program constants
LoginUrl == "http://localhost:3000/login"
DashboardUrl == "http://localhost:3000/dashboard"
EmailValue == "photographer@yarrow.com"
PasswordValue == "yarrow"
CardSelector == ".card"
ArtifactPath == "jules-scratch/verification/verification.png"

\* wait_for_url is called without a timeout argument: the browser library's
\* default applies (30 s).  A timeout of 0 means "no timeout".
DefaultTimeout == 30000
NoTimeout == 0
UrlTimeoutDisabled == NoTimeout
UrlTimeout == DefaultTimeout

\* page.wait_for_selector(".card", timeout=10000)
SelectorTimeoutHalved == 10000 \div 2
SelectorTimeoutOmitted == DefaultTimeout
SelectorTimeout == 10000

BlankUrl == "about:blank"
Never == 0 - 1

\* ------------------------------------------------------------------- state
VARIABLES
    pc,        \* position of the process: "idle", "sync_playwright", a step of run(), "exit_scope", "exit", "done"
    run,       \* number of the current (or last) execution of the script, 0 before the first
    env,       \* behaviour of the target application and the browser during this run
    scope,     \* the sync_playwright() scope: "none", "entered", "exited"
    browser,   \* the launched browser: "none", "open", "closed"
    contexts,  \* number of live browser contexts
    pages,     \* number of live pages
    url,       \* location of the page
    form,      \* values typed into the login form
    calls,     \* the calls of run() attempted so far in this run, in order
    error,     \* the exception in flight, NoError when there is none
    waited,    \* milliseconds this run has spent blocked in wait_for_url / wait_for_selector
    exit,      \* exit status of the process: "running", "zero", "nonzero"
    results,   \* exit status of every finished run, in order
    shot,      \* what the screenshot call of this run captured: "none", "viewport", "full_page"
    fs0,       \* the filesystem as it was when this run started
    fs         \* the filesystem: path |-> content (the number of the run that captured it, 0 = older content)

vars == <<pc, run, env, scope, browser, contexts, pages, url, form, calls,
          error, waited, exit, results, shot, fs0, fs>>

\* ------------------------------------------------------------- environment
\* When a condition becomes true, in ms after the wait for it starts.
Delays == {i * TickMs : i \in 0..MaxDelayTicks} \cup {Never}
RedirectDelays == {0, TickMs, Never}

Envs == [ launchOk : BOOLEAN, contextOk : BOOLEAN, pageOk : BOOLEAN,
          reachable : BOOLEAN,
          emailLabel : BOOLEAN, passwordLabel : BOOLEAN, loginButton : BOOLEAN,
          redirectAt : RedirectDelays, cardAt : Delays,
          writable : BOOLEAN ]

NoEnv == [ launchOk |-> TRUE, contextOk |-> TRUE, pageOk |-> TRUE,
           reachable |-> TRUE,
           emailLabel |-> TRUE, passwordLabel |-> TRUE, loginButton |-> TRUE,
           redirectAt |-> 0, cardAt |-> 0, writable |-> TRUE ]

NoError == [step |-> "none", kind |-> "none"]
EmptyForm == [email |-> "", password |-> ""]
NoFiles == [p \in {} |-> 0]

\* ----------------------------------------------------------------- helpers
StepOrderShotBeforeCard ==
    << "launch", "new_context", "new_page", "goto", "fill_email",
       "fill_password", "click", "wait_for_url", "screenshot",
       "wait_for_selector", "close" >>

StepOrderCardBeforeUrl ==
    << "launch", "new_context", "new_page", "goto", "fill_email",
       "fill_password", "click", "wait_for_selector", "wait_for_url",
       "screenshot", "close" >>

\* The statements of run(), in program order.
StepOrder ==
    << "launch", "new_context", "new_page", "goto", "fill_email",
       "fill_password", "click", "wait_for_url", "wait_for_selector",
       "screenshot", "close" >>

IndexOf(s) == CHOOSE i \in 1..Len(StepOrder) : StepOrder[i] = s

\* Where control goes when statement s returns normally.
After(s) ==
    IF IndexOf(s) = Len(StepOrder) THEN "exit_scope"
    ELSE StepOrder[IndexOf(s) + 1]

\* Statement s returned normally.
Complete(s) ==
    /\ calls' = Append(calls, s)
    /\ pc' = After(s)
    /\ error' = error

RaiseContinue(s, k) ==
    /\ calls' = Append(calls, s)
    /\ error' = [step |-> s, kind |-> k]
    /\ pc' = After(s)

\* Statement s raised: nothing in run() catches it, so run() ends and the
\* with-statement of the module is left with the exception in flight.
Raise(s, k) ==
    /\ calls' = Append(calls, s)
    /\ error' = [step |-> s, kind |-> k]
    /\ pc' = "exit_scope"

\* A blocking wait for a condition that becomes true `at` ms after the wait
\* starts (Never: it never does), with timeout t (NoTimeout: unbounded).
WaitOutcome(at, t) ==
    IF at # Never /\ (t = NoTimeout \/ at < t) THEN "ok"
    ELSE IF t # NoTimeout THEN "timeout"
    ELSE "blocked"

WaitTime(at, t) == IF WaitOutcome(at, t) = "ok" THEN at ELSE t

ScreenshotTargetFresh(f) ==
    IF ArtifactPath \in DOMAIN f
      THEN "jules-scratch/verification/verification-1.png"
      ELSE ArtifactPath

\* The path argument of page.screenshot, given the files f that exist.
ScreenshotTarget(f) == ArtifactPath

FullPageRequested == TRUE

\* The full_page argument of page.screenshot: it is not passed, so the
\* library's default (false) applies.
FullPage == FALSE

\* What page.screenshot captures: the whole scrollable document when
\* full_page is true, the visible viewport otherwise.
CaptureMode(fullPage) == IF fullPage THEN "full_page" ELSE "viewport"

\* The file at path p is (over)written with content c.
WriteFile(f, p, c) == [q \in (DOMAIN f) \cup {p} |-> IF q = p THEN c ELSE f[q]]

\* --------------------------------------------------------------------- Init
Init ==
    /\ pc = "idle"
    /\ run = 0
    /\ env = NoEnv
    /\ scope = "none"
    /\ browser = "none"
    /\ contexts = 0
    /\ pages = 0
    /\ url = BlankUrl
    /\ form = EmptyForm
    /\ calls = << >>
    /\ error = NoError
    /\ waited = 0
    /\ exit = "running"
    /\ results = << >>
    /\ shot = "none"
    /\ fs \in {NoFiles, [p \in {ArtifactPath} |-> 0]}
    /\ fs0 = fs

\* ------------------------------------------------------------------ actions
\* The script is started: a fresh interpreter, and the environment of this
\* run is fixed.
StartProcess ==
    /\ pc = "idle"
    /\ run < MaxRuns
    /\ run' = run + 1
    /\ env' \in Envs
    /\ pc' = "sync_playwright"
    /\ fs0' = fs
    /\ UNCHANGED <<scope, browser, contexts, pages, url, form, calls, error,
                   waited, exit, results, fs, shot>>

\* The finished process is gone; only the filesystem and the exit statuses
\* seen so far remain for the next execution.
Reap ==
    /\ pc = "done"
    /\ run < MaxRuns
    /\ pc' = "idle"
    /\ env' = NoEnv
    /\ scope' = "none"
    /\ browser' = "none"
    /\ contexts' = 0
    /\ pages' = 0
    /\ url' = BlankUrl
    /\ form' = EmptyForm
    /\ calls' = << >>
    /\ error' = NoError
    /\ waited' = 0
    /\ exit' = "running"
    /\ shot' = "none"
    /\ UNCHANGED <<run, results, fs, fs0>>

\* with sync_playwright() as playwright:
EnterScope ==
    /\ pc = "sync_playwright"
    /\ scope' = "entered"
    /\ pc' = StepOrder[1]
    /\ UNCHANGED <<run, env, browser, contexts, pages, url, form, calls,
                   error, waited, exit, results, fs, shot, fs0>>

LaunchFailureIgnored ==
    /\ pc = "launch"
    /\ browser' = IF env.launchOk THEN "open" ELSE browser
    /\ Complete("launch")
    /\ UNCHANGED <<run, env, scope, contexts, pages, url, form, waited,
                   exit, results, fs, shot, fs0>>

\* browser = playwright.chromium.launch(headless=True)
Launch ==
    /\ pc = "launch"
    /\ IF env.launchOk
         THEN /\ browser' = "open"
              /\ Complete("launch")
         ELSE /\ Raise("launch", "Error")
              /\ UNCHANGED browser
    /\ UNCHANGED <<run, env, scope, contexts, pages, url, form, waited,
                   exit, results, fs, shot, fs0>>

\* context = browser.new_context()
NewContext ==
    /\ pc = "new_context"
    /\ IF env.contextOk
         THEN /\ contexts' = contexts + 1
              /\ Complete("new_context")
         ELSE /\ Raise("new_context", "Error")
              /\ UNCHANGED contexts
    /\ UNCHANGED <<run, env, scope, browser, pages, url, form, waited,
                   exit, results, fs, shot, fs0>>

NewPageTwice ==
    /\ pc = "new_page"
    /\ IF env.pageOk
         THEN /\ pages' = pages + 2
              /\ url' = BlankUrl
              /\ Complete("new_page")
         ELSE /\ Raise("new_page", "Error")
              /\ UNCHANGED <<pages, url>>
    /\ UNCHANGED <<run, env, scope, browser, contexts, form, waited,
                   exit, results, fs, shot, fs0>>

\* page = context.new_page()
NewPage ==
    /\ pc = "new_page"
    /\ IF env.pageOk
         THEN /\ pages' = pages + 1
              /\ url' = BlankUrl
              /\ Complete("new_page")
         ELSE /\ Raise("new_page", "Error")
              /\ UNCHANGED <<pages, url>>
    /\ UNCHANGED <<run, env, scope, browser, contexts, form, waited,
                   exit, results, fs, shot, fs0>>

\* page.goto("http://localhost:3000/login")
Goto ==
    /\ pc = "goto"
    /\ IF env.reachable
         THEN /\ url' = LoginUrl
              /\ Complete("goto")
         ELSE /\ Raise("goto", "Error")
              /\ UNCHANGED url
    /\ UNCHANGED <<run, env, scope, browser, contexts, pages, form, waited,
                   exit, results, fs, shot, fs0>>

\* page.get_by_label("Email").fill("photographer@yarrow.com")
FillEmail ==
    /\ pc = "fill_email"
    /\ IF env.emailLabel
         THEN /\ form' = [form EXCEPT !.email = EmailValue]
              /\ Complete("fill_email")
         ELSE /\ Raise("fill_email", "TimeoutError")
              /\ UNCHANGED form
    /\ UNCHANGED <<run, env, scope, browser, contexts, pages, url, waited,
                   exit, results, fs, shot, fs0>>

\* page.get_by_label("Password").fill("yarrow")
FillPassword ==
    /\ pc = "fill_password"
    /\ IF env.passwordLabel
         THEN /\ form' = [form EXCEPT !.password = PasswordValue]
              /\ Complete("fill_password")
         ELSE /\ Raise("fill_password", "TimeoutError")
              /\ UNCHANGED form
    /\ UNCHANGED <<run, env, scope, browser, contexts, pages, url, waited,
                   exit, results, fs, shot, fs0>>

ClickLoginIfPresent ==
    /\ pc = "click"
    /\ Complete("click")
    /\ UNCHANGED <<run, env, scope, browser, contexts, pages, url, form,
                   waited, exit, results, fs, shot, fs0>>

\* page.get_by_role("button", name="Login").click()
ClickLogin ==
    /\ pc = "click"
    /\ IF env.loginButton
         THEN Complete("click")
         ELSE Raise("click", "TimeoutError")
    /\ UNCHANGED <<run, env, scope, browser, contexts, pages, url, form,
                   waited, exit, results, fs, shot, fs0>>

\* page.wait_for_url("http://localhost:3000/dashboard")
WaitForUrl ==
    /\ pc = "wait_for_url"
    /\ WaitOutcome(env.redirectAt, UrlTimeout) # "blocked"
    /\ waited' = waited + WaitTime(env.redirectAt, UrlTimeout)
    /\ IF WaitOutcome(env.redirectAt, UrlTimeout) = "ok"
         THEN /\ url' = DashboardUrl
              /\ Complete("wait_for_url")
         ELSE /\ Raise("wait_for_url", "TimeoutError")
              /\ UNCHANGED url
    /\ UNCHANGED <<run, env, scope, browser, contexts, pages, form,
                   exit, results, fs, shot, fs0>>

\* page.wait_for_selector(".card", timeout=10000)
WaitForSelector ==
    /\ pc = "wait_for_selector"
    /\ WaitOutcome(env.cardAt, SelectorTimeout) # "blocked"
    /\ waited' = waited + WaitTime(env.cardAt, SelectorTimeout)
    /\ IF WaitOutcome(env.cardAt, SelectorTimeout) = "ok"
         THEN Complete("wait_for_selector")
         ELSE Raise("wait_for_selector", "TimeoutError")
    /\ UNCHANGED <<run, env, scope, browser, contexts, pages, url, form,
                   exit, results, fs, shot, fs0>>

\* page.screenshot(path="jules-scratch/verification/verification.png")
Screenshot ==
    /\ pc = "screenshot"
    /\ IF env.writable
         THEN /\ fs' = WriteFile(fs, ScreenshotTarget(fs), run)
              /\ shot' = CaptureMode(FullPage)
              /\ Complete("screenshot")
         ELSE /\ Raise("screenshot", "Error")
              /\ UNCHANGED <<fs, shot>>
    /\ UNCHANGED <<run, env, scope, browser, contexts, pages, url, form,
                   waited, exit, results, fs0>>

\* browser.close(): the browser, its contexts and their pages are closed.
BrowserClose ==
    /\ pc = "close"
    /\ browser' = "closed"
    /\ contexts' = 0
    /\ pages' = 0
    /\ Complete("close")
    /\ UNCHANGED <<run, env, scope, url, form, waited, exit, results, fs, shot, fs0>>

ExitScopeOnReturnOnly ==
    /\ pc = "exit_scope"
    /\ IF error = NoError
         THEN /\ scope' = "exited"
              /\ browser' = IF browser = "open" THEN "closed" ELSE browser
              /\ contexts' = 0
              /\ pages' = 0
         ELSE UNCHANGED <<scope, browser, contexts, pages>>
    /\ pc' = "exit"
    /\ UNCHANGED <<run, env, url, form, calls, error, waited, exit,
                   results, fs, shot, fs0>>

\* End of the with-statement, reached when run() returned and when it raised:
\* the Playwright instance is stopped, which ends a browser it launched that
\* is still open.  The exception in flight, if any, is not suppressed.
ExitScope ==
    /\ pc = "exit_scope"
    /\ scope' = "exited"
    /\ browser' = IF browser = "open" THEN "closed" ELSE browser
    /\ contexts' = 0
    /\ pages' = 0
    /\ pc' = "exit"
    /\ UNCHANGED <<run, env, url, form, calls, error, waited, exit,
                   results, fs, shot, fs0>>

\* End of the module: the interpreter exits, with a non-zero status when an
\* exception reached the top level.
ProcessExit ==
    /\ pc = "exit"
    /\ exit' = IF error = NoError THEN "zero" ELSE "nonzero"
    /\ results' = Append(results, exit')
    /\ pc' = "done"
    /\ UNCHANGED <<run, env, scope, browser, contexts, pages, url, form,
                   calls, error, waited, fs, shot, fs0>>

\* One step of the running process.
Step ==
    \/ EnterScope
    \/ Launch
    \/ NewContext
    \/ NewPage
    \/ Goto
    \/ FillEmail
    \/ FillPassword
    \/ ClickLogin
    \/ WaitForUrl
    \/ WaitForSelector
    \/ Screenshot
    \/ BrowserClose
    \/ ExitScope
    \/ ProcessExit

Next == StartProcess \/ Reap \/ Step

Spec == Init /\ [][Next]_vars

\* A started process keeps running: single thread of control, every call
\* of the script returns or raises.
FairSpec == Spec /\ WF_vars(Step)

\* ------------------------------------------------------------------- types
TypeOK ==
    /\ pc \in {"idle", "sync_playwright", "exit_scope", "exit", "done"}
                \cup {StepOrder[i] : i \in 1..Len(StepOrder)}
    /\ run \in 0..MaxRuns
    /\ env \in Envs
    /\ scope \in {"none", "entered", "exited"}
    /\ browser \in {"none", "open", "closed"}
    /\ contexts \in Nat
    /\ pages \in Nat
    /\ exit \in {"running", "zero", "nonzero"}
    /\ Len(results) <= MaxRuns
    /\ shot \in {"none", "viewport", "full_page"}

\* ------------------------------------------------------ derived quantities
\* The calls of this run that returned normally.
Completed == IF error = NoError THEN calls ELSE SubSeq(calls, 1, Len(calls) - 1)

Called(s) == \E i \in 1..Len(calls) : calls[i] = s
Done(s) == \E i \in 1..Len(Completed) : Completed[i] = s
Count(s) == Cardinality({i \in 1..Len(calls) : calls[i] = s})

\* The file at the fixed path holds what this run captured.
WrittenThisRun ==
    /\ pc # "idle"
    /\ run >= 1
    /\ ArtifactPath \in DOMAIN fs
    /\ fs[ArtifactPath] = run

Terminating == pc \in {"exit_scope", "exit", "done"}
Steps2to7 == {"goto", "fill_email", "fill_password", "click",
              "wait_for_url", "wait_for_selector", "screenshot"}

\* --------------------------------------------------------------------- C1
\* C1: when the session was acquired and one of goto, fill Email, fill
\* Password, click Login, wait_for_url, wait_for_selector, screenshot raised,
\* nothing of run() executes any more, the scope exit is what follows, and
\* once the scope is left (so in every terminated run) the browser, its
\* context and its page are closed.
C1_SessionClosedOnFailure ==
    (Done("new_page") /\ error.step \in Steps2to7) =>
        /\ Terminating
        /\ calls[Len(calls)] = error.step
        /\ pc \in {"exit", "done"} =>
              /\ scope = "exited"
              /\ browser = "closed"
              /\ contexts = 0
              /\ pages = 0

C1_Witness ==
    /\ pc = "done"
    /\ error.step = "wait_for_selector"
    /\ Done("new_page")
    /\ browser = "closed"
    /\ ~Called("close")

\* --------------------------------------------------------------------- C2
\* C2: the screenshot call is made, and the artifact holds this run's
\* capture, only if goto, both fills, the click, wait_for_url and
\* wait_for_selector returned normally before it in this run (so the target
\* was reachable, the controls existed, the redirect happened and a card
\* appeared before 10000 ms); a run in which one of them raised never calls
\* screenshot.
C2_Prerequisites == {"goto", "fill_email", "fill_password", "click",
                     "wait_for_url", "wait_for_selector"}

C2_ArtifactOnlyAfterWaits ==
    /\ (Called("screenshot") \/ WrittenThisRun) =>
          /\ \A s \in C2_Prerequisites :
                \E i \in 1..Len(Completed) :
                    /\ Completed[i] = s
                    /\ \A j \in 1..Len(calls) : calls[j] = "screenshot" => i < j
          /\ env.reachable /\ env.emailLabel /\ env.passwordLabel
          /\ env.loginButton
          /\ env.redirectAt # Never
          /\ env.cardAt # Never /\ env.cardAt < 10000
    /\ error.step \in C2_Prerequisites =>
          ~Called("screenshot") /\ ~WrittenThisRun

C2_Witness ==
    /\ WrittenThisRun
    /\ Done("screenshot")
    /\ env.cardAt = TickMs

\* --------------------------------------------------------------------- C3
\* The conditions the claim lists: the session can be acquired, the target
\* is reachable, the two labeled inputs and the Login button exist, the
\* dashboard URL is reached and a card appears before the 10000 ms bound.
C3_ListedConditions ==
    /\ env.launchOk /\ env.contextOk /\ env.pageOk
    /\ env.reachable
    /\ env.emailLabel /\ env.passwordLabel /\ env.loginButton
    /\ env.redirectAt # Never
    /\ env.cardAt # Never /\ env.cardAt < 10000

C3_Success ==
    /\ pc = "done"
    /\ exit = "zero"
    /\ Count("screenshot") = 1
    /\ Done("screenshot")
    /\ WrittenThisRun
    /\ DOMAIN fs = {ArtifactPath}
    /\ Done("close")
    /\ browser = "closed"

\* C3 as stated: under the listed conditions a terminated run has written
\* the screenshot exactly once to the fixed path and has closed the session.
C3_AsStated ==
    (pc = "done" /\ C3_ListedConditions) => C3_Success

\* C3, amended: under the listed conditions and when the write of the
\* screenshot file does not fail, a started run always reaches the state in
\* which the screenshot has been written exactly once to the fixed path and
\* the session is closed.
C3_SuccessPath ==
    (pc = "sync_playwright" /\ C3_ListedConditions /\ env.writable)
        ~> C3_Success

C3_Witness ==
    /\ C3_Success
    /\ C3_ListedConditions
    /\ env.writable
    /\ env.cardAt = TickMs
    /\ env.redirectAt = TickMs

\* --------------------------------------------------------------------- C4
\* The state of the spec's state machine the run is in.
RunState ==
    IF scope = "exited" \/ browser = "closed" THEN "Closed"
    ELSE IF Done("screenshot") THEN "ArtifactWritten"
    ELSE IF Done("wait_for_selector") THEN "ContentReady"
    ELSE IF Done("wait_for_url") THEN "PostLoginNavigated"
    ELSE IF Done("click") THEN "AuthSubmitted"
    ELSE IF Done("goto") THEN "PageLoaded"
    ELSE IF Done("new_page") THEN "SessionOpen"
    ELSE "Idle"

C4_StateOrder ==
    << "Idle", "SessionOpen", "PageLoaded", "AuthSubmitted",
       "PostLoginNavigated", "ContentReady", "ArtifactWritten", "Closed" >>

C4_Rank(st) == CHOOSE i \in 1..Len(C4_StateOrder) : C4_StateOrder[i] = st

C4_CallOrder ==
    << "launch", "new_context", "new_page", "goto", "fill_email",
       "fill_password", "click", "wait_for_url", "wait_for_selector",
       "screenshot", "close" >>

\* C4: within a run the states are visited in the order Idle, SessionOpen,
\* PageLoaded, AuthSubmitted, PostLoginNavigated, ContentReady,
\* ArtifactWritten, Closed: a step of the process keeps the state, moves it
\* to the next one, or (after a failure only) moves it to Closed; while no
\* call has raised no state is skipped; every call is made only after all
\* calls before it returned normally; once a call has raised no further call
\* is made and the state changes only to Closed.
C4_LinearOrder ==
    /\ [](/\ Len(calls) <= Len(C4_CallOrder)
          /\ \A i \in 1..Len(calls) : calls[i] = C4_CallOrder[i])
    /\ [][pc' # "idle" =>
            /\ \/ RunState' = RunState
               \/ C4_Rank(RunState') = C4_Rank(RunState) + 1
               \/ error' # NoError /\ RunState' = "Closed"
            /\ error # NoError =>
                  /\ calls' = calls
                  /\ error' = error
                  /\ RunState' \in {RunState, "Closed"}]_vars

C4_Witness ==
    /\ pc = "done"
    /\ RunState = "Closed"
    /\ error.step = "click"
    /\ Len(calls) = 7

\* --------------------------------------------------------------------- C5
\* C5: in a run where no button named Login can be located, wait_for_url,
\* wait_for_selector and screenshot are never called and the artifact is not
\* written by the run; when the click is attempted it raises, the run ends
\* there and exits with a non-zero status.
C5_MissingLoginButton ==
    (pc # "idle" /\ ~env.loginButton) =>
        /\ ~Called("wait_for_url")
        /\ ~Called("wait_for_selector")
        /\ ~Called("screenshot")
        /\ ~WrittenThisRun
        /\ Called("click") =>
              /\ error.step = "click"
              /\ calls[Len(calls)] = "click"
              /\ Terminating
        /\ pc = "done" => exit = "nonzero"

C5_Witness ==
    /\ pc = "done"
    /\ ~env.loginButton
    /\ error.step = "click"
    /\ env.redirectAt = 0
    /\ env.cardAt = 0
    /\ ArtifactPath \notin DOMAIN fs

\* --------------------------------------------------------------------- C6
\* C6: in a run that reached the dashboard URL and in which no '.card'
\* element appears before 10000 ms have elapsed, wait_for_selector raises a
\* timeout after blocking 10000 ms, screenshot is never called and the
\* artifact is not written by the run.
C6_ContentTimeout ==
    (/\ pc # "idle"
     /\ Done("wait_for_url")
     /\ env.cardAt = Never \/ env.cardAt >= 10000) =>
        /\ ~Called("screenshot")
        /\ ~WrittenThisRun
        /\ Called("wait_for_selector") =>
              /\ error = [step |-> "wait_for_selector", kind |-> "TimeoutError"]
              /\ waited = env.redirectAt + 10000
              /\ Terminating
        /\ pc = "done" => exit = "nonzero"

C6_Witness ==
    /\ pc = "done"
    /\ url = DashboardUrl
    /\ env.cardAt = 3 * TickMs
    /\ error.step = "wait_for_selector"
    /\ ~WrittenThisRun

\* --------------------------------------------------------------------- C7
\* C7: every started run terminates; in particular a run that waits for the
\* dashboard URL while the target never redirects ends that wait with a
\* timeout after the default navigation-wait duration and then reaches its
\* terminal state with a non-zero exit status.
C7_Terminates ==
    /\ (pc = "sync_playwright") ~> (pc = "done")
    /\ (pc = "wait_for_url" /\ env.redirectAt = Never) ~>
          (/\ pc = "done"
           /\ error = [step |-> "wait_for_url", kind |-> "TimeoutError"]
           /\ waited = DefaultTimeout
           /\ exit = "nonzero")

C7_Witness ==
    /\ pc = "done"
    /\ env.redirectAt = Never
    /\ error = [step |-> "wait_for_url", kind |-> "TimeoutError"]
    /\ waited = DefaultTimeout

\* --------------------------------------------------------------------- C8
\* C8: when two executions in succession both succeed, the filesystem holds
\* exactly one artifact file, at jules-scratch/verification/verification.png,
\* and its content is the capture of the second of them.
C8_OverwriteOnRerun ==
    (/\ pc = "done"
     /\ run >= 2
     /\ results[run] = "zero"
     /\ results[run - 1] = "zero") =>
        /\ DOMAIN fs = {"jules-scratch/verification/verification.png"}
        /\ fs["jules-scratch/verification/verification.png"] = run

C8_Witness ==
    /\ pc = "done"
    /\ run = 2
    /\ results = << "zero", "zero" >>
    /\ fs[ArtifactPath] = 2

\* --------------------------------------------------------------------- C9
\* The first call, in program order, that the environment of this run makes
\* raise ("none" when none does).
C9_FirstFailing ==
    IF ~env.launchOk THEN "launch"
    ELSE IF ~env.contextOk THEN "new_context"
    ELSE IF ~env.pageOk THEN "new_page"
    ELSE IF ~env.reachable THEN "goto"
    ELSE IF ~env.emailLabel THEN "fill_email"
    ELSE IF ~env.passwordLabel THEN "fill_password"
    ELSE IF ~env.loginButton THEN "click"
    ELSE IF env.redirectAt = Never THEN "wait_for_url"
    ELSE IF env.cardAt = Never \/ env.cardAt >= 10000 THEN "wait_for_selector"
    ELSE IF ~env.writable THEN "screenshot"
    ELSE "none"

\* C9: no call is made twice in a run; a call that raised is the last call
\* of the run, it is the first call the environment makes fail, and its
\* exception is the one in flight until the process ends with a non-zero
\* status; the process ends with status zero only when no call raised, the
\* artifact has been written by this run and the browser has been closed by
\* browser.close().
C9_NoCatchNoRetry ==
    /\ \A i, j \in 1..Len(calls) : calls[i] = calls[j] => i = j
    /\ error # NoError =>
          /\ calls[Len(calls)] = error.step
          /\ error.step = C9_FirstFailing
          /\ Terminating
    /\ pc = "done" => (exit = "nonzero" <=> error # NoError)
    /\ pc = "done" => (exit = "zero" <=> C9_FirstFailing = "none")
    /\ exit = "zero" =>
          /\ Done("screenshot")
          /\ WrittenThisRun
          /\ Done("close")
          /\ browser = "closed"

C9_Witness ==
    /\ pc = "done"
    /\ exit = "nonzero"
    /\ error.step = "fill_email"
    /\ ~env.passwordLabel
    /\ ~env.loginButton
    /\ Len(calls) = 5

\* -------------------------------------------------------------------- C10
C10_PageCalls == {"goto", "fill_email", "fill_password", "click",
                  "wait_for_url", "wait_for_selector", "screenshot"}

\* C10: at most one page is live; a page is live only while the browser and
\* its context are open, so it is created after them and is gone once the
\* browser has been closed; every call on the page is made while the page
\* and the browser are live, on the success path and after a failure.
C10_PageWithinSession ==
    /\ pages <= 1
    /\ contexts <= 1
    /\ pages > 0 => (browser = "open" /\ contexts = 1 /\ Done("new_context"))
    /\ contexts > 0 => (browser = "open" /\ Done("launch"))
    /\ browser # "open" => pages = 0
    /\ pc \in C10_PageCalls => (pages = 1 /\ browser = "open")
    /\ pc \in {"exit", "done"} => (pages = 0 /\ browser # "open")

C10_Witness ==
    /\ pc = "exit"
    /\ error.step = "wait_for_url"
    /\ pages = 0
    /\ browser = "closed"
    /\ url = LoginUrl

\* -------------------------------------------------------------------- C11
C11_AcquireCalls == {"launch", "new_context", "new_page"}
C11_ScenarioCalls == {"goto", "fill_email", "fill_password", "click",
                      "wait_for_url", "wait_for_selector", "screenshot"}

\* C11: in a run where the browser launch, the context creation or the page
\* creation raises, the run ends at that call: no goto, fill, click, wait or
\* screenshot is ever called, the artifact is not written by the run, and
\* the process ends with a non-zero status.
C11_AcquireFailureAborts ==
    (pc # "idle" /\ (~env.launchOk \/ ~env.contextOk \/ ~env.pageOk)) =>
        /\ \A s \in C11_ScenarioCalls : ~Called(s)
        /\ ~WrittenThisRun
        /\ pages = 0
        /\ error # NoError =>
              /\ error.step \in C11_AcquireCalls
              /\ calls[Len(calls)] = error.step
              /\ Terminating
        /\ pc = "done" => (exit = "nonzero" /\ error.step \in C11_AcquireCalls)

C11_Witness ==
    /\ pc = "done"
    /\ env.launchOk /\ ~env.contextOk
    /\ error.step = "new_context"
    /\ calls = << "launch", "new_context" >>
    /\ env.reachable /\ env.writable
    /\ exit = "nonzero"

\* -------------------------------------------------------------------- C12
\* C12 as stated: whenever the artifact has been written by this run, the
\* capture was a full-page one.
C12_AsStated ==
    WrittenThisRun => shot = "full_page"

\* C12, amended: the capture step does not request a full-page screenshot;
\* whenever the artifact has been written by this run, the capture recorded
\* for that write is the visible viewport only, and a capture is recorded
\* only once the screenshot call has returned.
C12_ViewportCapture ==
    /\ WrittenThisRun => shot = "viewport"
    /\ (pc # "idle" /\ Done("screenshot")) => shot = "viewport"
    /\ shot # "none" => (Done("screenshot") /\ WrittenThisRun)

C12_Witness ==
    /\ pc = "done"
    /\ exit = "zero"
    /\ WrittenThisRun
    /\ shot = "viewport"

\* -------------------------------------------------------------------- C13
C13_BeforeCapture == {"launch", "new_context", "new_page", "goto",
                      "fill_email", "fill_password", "click",
                      "wait_for_url", "wait_for_selector"}

\* C13: a run in which a call before the capture step raised leaves the
\* filesystem exactly as it was when the run started (the artifact absent
\* if it was absent, its old content if it was present); more generally the
\* filesystem of a run is unchanged as long as its screenshot call has not
\* returned.
C13_ArtifactUntouchedOnFailure ==
    /\ (pc # "idle" /\ error.step \in C13_BeforeCapture) =>
          /\ fs = fs0
          /\ ArtifactPath \in DOMAIN fs <=> ArtifactPath \in DOMAIN fs0
          /\ ArtifactPath \in DOMAIN fs => fs[ArtifactPath] < run
    /\ (pc # "idle" /\ ~Done("screenshot")) => fs = fs0

C13_Witness ==
    /\ pc = "done"
    /\ run = 2
    /\ error.step = "wait_for_selector"
    /\ ArtifactPath \in DOMAIN fs
    /\ fs[ArtifactPath] = 1
    /\ fs0 = fs

\* -------------------------------------------------------------------- C14
C14_RunPositions ==
    {"launch", "new_context", "new_page", "goto", "fill_email",
     "fill_password", "click", "wait_for_url", "wait_for_selector",
     "screenshot", "close", "exit_scope"}

\* C14: once the sync_playwright scope has been entered it is eventually
\* exited, whether run() returns or raises; it is exited only from the end
\* of the with-statement, after run() returned (all its calls made,
\* browser.close() last) or raised; after the exit no call of run() is made
\* and the scope stays exited; a process that has left the with-statement
\* or has terminated never has the scope open.
C14_ScopeAlwaysExited ==
    /\ [](scope = "entered" => pc \in C14_RunPositions)
    /\ [](scope = "exited" => pc \in {"exit", "done"})
    /\ [](pc \in {"exit", "done"} => scope = "exited")
    /\ [][(scope = "entered" /\ scope' = "exited") =>
            /\ pc = "exit_scope"
            /\ \/ error # NoError
               \/ /\ Len(calls) = 11
                  /\ calls[Len(calls)] = "close"]_vars
    /\ [][(scope = "exited" /\ pc' # "idle") =>
            /\ scope' = "exited"
            /\ calls' = calls
            /\ browser' = browser
            /\ fs' = fs]_vars
    /\ (scope = "entered") ~> (scope = "exited")

C14_Witness ==
    /\ pc = "done"
    /\ scope = "exited"
    /\ error.step = "screenshot"
    /\ exit = "nonzero"

=============================================================================
